---------------------------- MODULE Spec2Model ----------------------------
(***************************************************************************)
(* A model of src/data_warehouse/__init__.py (class DataWarehouse): the    *)
(* path codec, the metadata envelope, the two-channel save protocol, the   *)
(* filtered listing and the Athena poll / pagination loop.                 *)
(*                                                                         *)
(* Python strings are modelled as sequences of one-character strings, so   *)
(* that split, find, startswith, slicing and splitext are computed on the  *)
(* characters as the code computes them.                                   *)
(***************************************************************************)
EXTENDS Integers, Sequences, FiniteSets, TLC

(***************************************************************************)
(* String literals of the source.                                          *)
(***************************************************************************)
S_default == <<"d","e","f","a","u","l","t">>
S_raw == <<"r","a","w">>
S_discovery == <<"d","i","s","c","o","v","e","r","y">>
S_general == <<"g","e","n","e","r","a","l">>
S_value == <<"v","a","l","u","e">>
S_meta == <<"m","e","t","a">>
S_gz == <<".","g","z">>
S_parquet == <<".","p","a","r","q","u","e","t">>
S_csv == <<".","c","s","v">>
S_full_path == <<"f","u","l","l","_","p","a","t","h">>
S_stored_time == <<"s","t","o","r","e","d","_","t","i","m","e">>
S_ymd == <<"y","m","d">>
S_default_table_name == <<"d","e","f","a","u","l","t","_","t","a","b","l","e","_","n","a","m","e">>
Slash == <<"/">>
Underscore == <<"_">>
Empty == <<>>

(***************************************************************************)
(* Python string primitives.                                               *)
(***************************************************************************)
Max(a, b) == IF a >= b THEN a ELSE b

\* s[lo:hi] with 0-based, already clamped bounds
Slice(s, lo, hi) == SubSeq(s, lo + 1, hi)

\* s[-n:]
LastChars(s, n) == Slice(s, Max(Len(s) - n, 0), Len(s))

\* s[:-n] for 0 < n
DropLast(s, n) == Slice(s, 0, Max(Len(s) - n, 0))

\* s.startswith(p)
StartsWith(s, p) == Len(s) >= Len(p) /\ SubSeq(s, 1, Len(p)) = p

\* the 0-based positions at which sub occurs in s
Occurrences(s, sub) ==
    {i \in 0..(Len(s) - Len(sub)) : SubSeq(s, i + 1, i + Len(sub)) = sub}

\* s.find(sub): the lowest position, or -1
Find(s, sub) ==
    LET occ == Occurrences(s, sub)
    IN  IF occ = {} THEN -1 ELSE CHOOSE i \in occ : \A j \in occ : i <= j

\* s.rfind(c) + 1 for a single character c: the 1-based last position, or 0
LastIndexOf(s, c) ==
    LET at == {i \in 1..Len(s) : s[i] = c}
    IN  IF at = {} THEN 0 ELSE CHOOSE i \in at : \A j \in at : i >= j

\* s.split("/")
RECURSIVE Split(_)
Split(s) ==
    LET at == {i \in 1..Len(s) : s[i] = "/"}
    IN  IF at = {} THEN <<s>>
        ELSE LET i == CHOOSE k \in at : \A j \in at : k <= j
             IN  <<SubSeq(s, 1, i - 1)>> \o Split(SubSeq(s, i + 1, Len(s)))

\* "/".join(segs)
RECURSIVE Join(_)
Join(segs) ==
    IF Len(segs) = 0 THEN Empty
    ELSE IF Len(segs) = 1 THEN segs[1]
    ELSE segs[1] \o Slash \o Join(Tail(segs))

\* os.path.splitext(p)[1]: the extension starts at the last dot of the last
\* path component, unless only dots precede it in that component
SplitextExt(p) ==
    LET sepIndex == LastIndexOf(p, "/")
        dotIndex == LastIndexOf(p, ".")
    IN  IF dotIndex > sepIndex
           /\ \E i \in (sepIndex + 1)..(dotIndex - 1) : p[i] # "."
        THEN SubSeq(p, dotIndex, Len(p))
        ELSE Empty

\* os.path.basename(p)
Basename(p) == SubSeq(p, LastIndexOf(p, "/") + 1, Len(p))


(***************************************************************************)
(* Python values.                                                          *)
(***************************************************************************)
\* None, and how an f-string prints it
PyNone == <<"None">>
NotRun == [error |-> "not run"]

(***************************************************************************)
(* The handler's configuration (DataWarehouse.__init__).                   *)
(***************************************************************************)
\* self.warehouse_name, at its default
warehouse_name == <<"w","a","r","e","h","o","u","s","e">>

\* f"default/{self.warehouse_name}/"
WarehousePrefix == S_default \o Slash \o warehouse_name \o Slash


VARIABLES
    self_table_name,  \* self.table_name
    pin,              \* path codec: the arguments of _get_warehouse_full_path
    pout,              \* path codec: what _parse_full_path returned for the built key
    query,         \* the query text
    format_type,   \* the format_type argument, reassigned when it is "auto"
    request_limit, \* the request_limit argument
    qpc,           \* where the call is: start, poll, fetch, returned, raised
    status,        \* the State the last get_query_execution returned ("" before)
    n_start,       \* start_query_execution calls received by the service
    n_polls,       \* get_query_execution calls received by the service
    requests,      \* the NextToken of each get_query_results request, in order
    pages,         \* the pages the service returned, in order
    next_tokens,   \* local next_tokens
    header,        \* local header
    result,        \* local result
    index,          \* the loop variable of for index in range(request_limit)
    s3,        \* the bucket: a sequence of objects [Key, Body], in listing order
    puts,      \* the save calls received, in order: [save, arg, Key, ok]
    gets,      \* the keys of the _load_file calls received, in order
    saves,     \* one record per _save_worker call: its arguments and outcome
    spc,       \* "idle", or "second" between the two writes of a save
    ctx,       \* the locals of the save between its two writes
    ret        \* what the last load or list call returned or raised

pathVars == <<pin, pout>>
queryVars == <<query, format_type, request_limit, qpc, status, n_start, n_polls,
               requests, pages, next_tokens, header, result, index>>
storeVars == <<s3, puts, gets, saves, spc, ctx, ret>>
vars == <<self_table_name, pathVars, queryVars, storeVars>>

\* what the actions of one component leave alone
otherThanPath == <<queryVars, storeVars>>
otherThanQuery == <<self_table_name, pathVars, storeVars>>
otherThanStore == <<self_table_name, pathVars, queryVars>>

IdleCtx == [error |-> "idle"]

(***************************************************************************)
(* Input pools.                                                            *)
(***************************************************************************)
StoreKinds == {S_raw, S_discovery}
TableKinds == {S_general, <<"a","/","b">>}
TableNames == {Empty, <<"t">>}
ConfiguredTableNames == {Empty, <<"t","b">>}
Ymds == {Empty, <<"2","0","2","0","-","0","8","-","3","0">>}
CodecUserPaths ==
    { <<"a",".","j","s","o","n">>,
      <<"b",".","p","a","r","q","u","e","t">>,
      <<"d","/","c",".","c","s","v">>,
      <<"n","o","e","x","t">> }

(***************************************************************************)
(* PathCodec.                                                              *)
(***************************************************************************)
\* _get_table_name
get_table_name(table_name) ==
    IF table_name # Empty THEN table_name ELSE self_table_name

\* _get_warehouse_full_path
get_warehouse_full_path(store_kind, table_name, user_path, table_kind, ymd, is_meta) ==
    LET tn == get_table_name(table_name)
        ymd_with_slash == IF ymd # Empty THEN Slash \o ymd ELSE Empty
        meta_or_value == IF is_meta THEN S_meta ELSE S_value
        ext == SplitextExt(user_path)
        add_ext == IF ext # S_parquet THEN S_gz ELSE Empty
        remaining_path == table_kind \o Slash \o meta_or_value \o Slash \o tn
                          \o ymd_with_slash \o Slash \o user_path \o add_ext
    IN  IF store_kind = S_raw THEN S_raw \o Slash \o remaining_path
        ELSE IF store_kind = S_discovery THEN S_discovery \o Slash \o remaining_path
        ELSE PyNone

\* _valid_full_path: TRUE when it returns, FALSE when it raises ValueError
valid_full_path(full_path) == StartsWith(full_path, WarehousePrefix)

\* _parse_full_path; error is "" when it returns
parse_full_path(full_path_arg) ==
    LET is_gz == LastChars(full_path_arg, 3) = S_gz
        full_path == IF is_gz THEN DropLast(full_path_arg, 3) ELSE full_path_arg
        ext == SplitextExt(Basename(full_path))
        splited == Split(full_path)
        failed(e) == [error |-> e, full_path |-> Empty, ext |-> Empty,
                      store_kind |-> Empty, meta_or_value |-> Empty,
                      table_name |-> Empty, gz |-> FALSE, ymd |-> Empty]
    IN  IF ~valid_full_path(full_path) THEN failed("ValueError")
        ELSE IF Len(splited) < 7 THEN failed("IndexError")
        ELSE [error |-> "",
              full_path |-> full_path,
              ext |-> ext,
              store_kind |-> splited[3 + 1],
              meta_or_value |-> splited[4 + 1],
              table_name |-> splited[5 + 1],
              gz |-> is_gz,
              ymd |-> splited[6 + 1]]

\* the canonical key of the arguments pin
BuiltKey(a) ==
    WarehousePrefix \o get_warehouse_full_path(a.store_kind, a.table_name,
                           a.user_path, a.table_kind, a.ymd, a.is_meta)

(***************************************************************************)
(* Specification of the path codec: the arguments are drawn initially and  *)
(* the built key is parsed.                                                *)
(***************************************************************************)
PathArgs ==
    [store_kind : StoreKinds, table_kind : TableKinds, table_name : TableNames,
     user_path : CodecUserPaths, ymd : Ymds, is_meta : BOOLEAN]

ParseBuiltKey ==
    /\ pout = NotRun
    /\ pout' = parse_full_path(BuiltKey(pin))
    /\ UNCHANGED <<self_table_name, pin>>
    /\ UNCHANGED otherThanPath

\* C5: parsing the canonical key built from (store_kind, table_kind, table_name,
\* channel, user path, non-empty partition) returns the store kind, the channel,
\* the table name, the partition and whether the key ended in ".gz".  (Stated
\* for table kinds of one segment, where the segment positions are not in doubt.)
C5_PathRoundTrip ==
    (pout # NotRun /\ pin.ymd # Empty /\ Find(pin.table_kind, Slash) = -1) =>
        /\ pout.error = ""
        /\ pout.store_kind = pin.store_kind
        /\ pout.meta_or_value = (IF pin.is_meta THEN S_meta ELSE S_value)
        /\ pout.table_name = get_table_name(pin.table_name)
        /\ pout.ymd = pin.ymd
        /\ pout.gz = (LastChars(BuiltKey(pin), 3) = S_gz)


(***************************************************************************)
(* QueryRunner: load_with_athena_query.                                    *)
(***************************************************************************)

\* bounds of the model
MaxRequestLimit == 4
MaxPolls == 2

\* the service's vocabulary
NonTerminal == {"RUNNING", "QUEUED"}
Statuses == NonTerminal \cup {"SUCCEEDED", "FAILED", "CANCELLED"}
Tokens == {"t1", "t2", "t3"}
NoToken == "absent"   \* the page has no NextToken key
Null == "null"        \* a cell without VarCharValue

\* the rows ({'Data': [{'VarCharValue': ...}, ...]}) a page may carry
RowX == <<"x", "y">>
Row1 == <<"1", "2">>
Row2 == <<"3">>
RowNull == <<"4", Null>>
PageRowsPool == { <<>>, <<RowX>>, <<RowX, Row1>>, <<Row1, Row2>>, <<RowNull>> }
Pages == [Rows : PageRowsPool, NextToken : Tokens \cup {NoToken}]

Q_SELECT == <<"S","E","L","E","C","T"," ","1">>
Q_select == <<"s","e","l","e","c","t"," ","1">>
Q_show == <<"S","H","O","W">>
QueryCalls ==
    { <<Q_SELECT, "auto">>, <<Q_select, "auto">>, <<Q_show, "auto">>,
      <<Q_show, "select">>, <<Q_SELECT, "raw">> }

\* get_format_type
get_format_type(q) ==
    IF Find(q, <<"S","E","L","E","C","T">>) # -1
       \/ Find(q, <<"s","e","l","e","c","t">>) # -1
    THEN "select" ELSE "raw"

\* get_var_char_values raises KeyError on a cell without VarCharValue
HasKeyError(row) == \E i \in 1..Len(row) : row[i] = Null

\* dict(zip(h, row)): the pairs up to the shorter length, a later pair winning
Zip(h, row) ==
    LET n == IF Len(h) <= Len(row) THEN Len(h) ELSE Len(row)
    IN  [k \in {h[i] : i \in 1..n} |->
            row[CHOOSE i \in 1..n : h[i] = k /\ \A j \in 1..n : h[j] = k => j <= i]]

\* parse(header, rows)
parse(h, rows) == [i \in 1..Len(rows) |-> Zip(h, rows[i])]

\* mutant: a FAILED query is treated as finished
PollOutcome_FailedBreaks(s) ==
    IF s = "CANCELLED" THEN "raised"
    ELSE IF s = "FAILED" THEN "break"
    ELSE IF s = "SUCCEEDED" THEN "break"
    ELSE "continue"

\* mutant: a QUEUED query is treated as finished
PollOutcome_QueuedBreaks(s) ==
    IF s = "CANCELLED" THEN "raised"
    ELSE IF s = "FAILED" THEN "raised"
    ELSE IF s = "SUCCEEDED" \/ s = "QUEUED" THEN "break"
    ELSE "continue"

\* what the while loop does with a status: raise, break or continue
PollOutcome(s) ==
    IF s = "CANCELLED" THEN "raised"
    ELSE IF s = "FAILED" THEN "raised"
    ELSE IF s = "SUCCEEDED" THEN "break"
    ELSE "continue"

\* the header of the select branch: unpacked from the first page only
PageHeader(idx, hdr, rows) == IF idx = 0 THEN rows[1] ELSE hdr

\* mutant: the first row of every page is taken for a header
PageRows_HeaderOnEveryPage(idx, rows) == IF Len(rows) > 0 THEN Tail(rows) ELSE rows

\* the rows of the select branch: all but the first of the first page
PageRows(idx, rows) == IF idx = 0 THEN Tail(rows) ELSE rows

\* mutant: no cycle guard, only a missing token ends the pagination
StopsPaging_NoCycleGuard(page, seen) == page.NextToken = NoToken

\* whether the select branch breaks after a page
StopsPaging(page, seen) ==
    IF page.NextToken # NoToken
    THEN page.NextToken \in {seen[i] : i \in 1..Len(seen)}
    ELSE TRUE

\* line 426: "for index in range(request_limit)" runs its body for index i
\* exactly when i < request_limit
InRange_OneMore(i, limit) == i <= limit

InRange(i, limit) == i < limit

\* lines 394-406: resolve the format, submit the query
StartQuery ==
    /\ qpc = "start"
    /\ format_type' = IF format_type = "auto" THEN get_format_type(query)
                      ELSE format_type
    /\ n_start' = n_start + 1
    /\ qpc' = "poll"
    /\ UNCHANGED <<query, request_limit, status, n_polls, requests, pages,
                   next_tokens, header, result, index>>
    /\ UNCHANGED otherThanQuery

\* start_query_execution raises: the error propagates
StartQueryFails ==
    /\ qpc = "start"
    /\ format_type' = IF format_type = "auto" THEN get_format_type(query)
                      ELSE format_type
    /\ n_start' = n_start + 1
    /\ qpc' = "raised"
    /\ UNCHANGED <<query, request_limit, status, n_polls, requests, pages,
                   next_tokens, header, result, index>>
    /\ UNCHANGED otherThanQuery

\* lines 408-426: one iteration of the while loop; on break the for loop is
\* entered, and left at once when range(request_limit) is empty
Poll ==
    /\ qpc = "poll"
    /\ \E s \in Statuses :
         /\ s \in NonTerminal => n_polls + 1 < MaxPolls
         /\ status' = s
         /\ n_polls' = n_polls + 1
         /\ qpc' = IF PollOutcome(s) = "raised" THEN "raised"
                   ELSE IF PollOutcome(s) = "continue" THEN "poll"
                   ELSE IF InRange(0, request_limit) THEN "fetch"
                   ELSE "returned"
    /\ UNCHANGED <<query, format_type, request_limit, n_start, requests, pages,
                   next_tokens, header, result, index>>
    /\ UNCHANGED otherThanQuery

\* lines 426-459: one iteration of the for loop
GetResults ==
    /\ qpc = "fetch"
    /\ \E page \in Pages :
         LET rows == page.Rows
             more == IF InRange(index + 1, request_limit) THEN "fetch"
                     ELSE "returned"
         IN
         /\ requests' = Append(requests,
                IF Len(next_tokens) > 0 THEN next_tokens[Len(next_tokens)]
                ELSE NoToken)
         /\ pages' = Append(pages, page)
         /\ IF format_type = "raw"
            THEN /\ result' = Append(result, page)
                 /\ qpc' = "returned"
                 /\ UNCHANGED <<header, next_tokens, index>>
            ELSE IF format_type = "select"
            THEN IF index = 0 /\ Len(rows) = 0
                 THEN \* header, *rows = []  raises ValueError
                      /\ qpc' = "raised"
                      /\ UNCHANGED <<header, result, next_tokens, index>>
                 ELSE IF HasKeyError(PageHeader(index, header, rows))
                 THEN /\ qpc' = "raised"
                      /\ header' = PageHeader(index, header, rows)
                      /\ UNCHANGED <<result, next_tokens, index>>
                 ELSE IF \E i \in 1..Len(PageRows(index, rows)) :
                            HasKeyError(PageRows(index, rows)[i])
                 THEN /\ qpc' = "raised"
                      /\ header' = PageHeader(index, header, rows)
                      /\ UNCHANGED <<result, next_tokens, index>>
                 ELSE /\ header' = PageHeader(index, header, rows)
                      /\ result' = result \o parse(header', PageRows(index, rows))
                      /\ IF StopsPaging(page, next_tokens)
                         THEN /\ qpc' = "returned"
                              /\ UNCHANGED <<next_tokens, index>>
                         ELSE /\ next_tokens' = Append(next_tokens, page.NextToken)
                              /\ qpc' = more
                              /\ index' = IF more = "fetch" THEN index + 1 ELSE index
            ELSE /\ qpc' = more
                 /\ index' = IF more = "fetch" THEN index + 1 ELSE index
                 /\ UNCHANGED <<header, result, next_tokens>>
    /\ UNCHANGED <<query, format_type, request_limit, status, n_start, n_polls>>
    /\ UNCHANGED otherThanQuery

(***************************************************************************)
(* The object-storage collaborator (easy_s3.EasyS3, constructed with the   *)
(* warehouse name as its service name) and the calls made to it.           *)
(***************************************************************************)

\* bound of the model: the number of save calls in one behaviour
MaxSaves == 1

Keys(bucket) == {bucket[i].Key : i \in 1..Len(bucket)}

\* the object stored under key k
ObjectAt(bucket, k) == bucket[CHOOSE i \in 1..Len(bucket) : bucket[i].Key = k]

\* EasyS3.save(path, value, option): the object is stored under
\* default/{warehouse_name}/{path}, replacing an object of that key
EsSave(bucket, path, body) ==
    LET k == WarehousePrefix \o path
    IN  IF k \in Keys(bucket)
        THEN [i \in 1..Len(bucket) |->
                 IF bucket[i].Key = k THEN [Key |-> k, Body |-> body] ELSE bucket[i]]
        ELSE Append(bucket, [Key |-> k, Body |-> body])

(***************************************************************************)
(* MetadataEnvelope.                                                       *)
(***************************************************************************)
\* a dict is a function from its keys (strings) to its values
EmptyDict == [k \in {} |-> Empty]
DictSet(d, key, v) == [k \in DOMAIN d \cup {key} |-> IF k = key THEN v ELSE d[k]]

\* datetime.datetime.now(), as str() and as strftime("%Y-%m-%d") print it
Clock ==
    { [stored_time |-> <<"2","0","2","0","-","0","9","-","0","1"," ","1","0",":","0","0">>,
       ymd |-> <<"2","0","2","0","-","0","9","-","0","1">>] }

\* line 647: temp_meta is a copy, so the caller's dict is not the one written to
CallerMetaAfter(meta, temp_meta) == meta

\* mutant: the entries of temp_meta keep their keys
PrefixedKey_Unprefixed(store_kind, key) == key

\* lines 668-670: the key each entry of temp_meta gets in new_meta
PrefixedKey(store_kind, key) == store_kind \o Underscore \o key

\* _upgrade_meta; error is "" when it returns.  caller_meta is the caller's
\* dict as the call leaves it.
upgrade_meta(store_kind, meta, warehouse_full_path, table_name, now) ==
    LET tn == get_table_name(table_name)
        new_meta0 == DictSet(EmptyDict, S_default_table_name, tn)
        full_path == WarehousePrefix \o warehouse_full_path
        temp_meta == DictSet(DictSet(DictSet(meta, S_full_path, full_path),
                                     S_stored_time, now.stored_time),
                             S_ymd, now.ymd)
        new_keys == DOMAIN new_meta0
                    \cup {PrefixedKey(store_kind, key) : key \in DOMAIN temp_meta}
    IN  IF store_kind \notin {S_raw, S_discovery}
        THEN [error |-> "ValueError", new_meta |-> EmptyDict,
              caller_meta |-> CallerMetaAfter(meta, temp_meta)]
        ELSE [error |-> "",
              new_meta |->
                 [k \in new_keys |->
                    IF \E key \in DOMAIN temp_meta : PrefixedKey(store_kind, key) = k
                    THEN temp_meta[CHOOSE key \in DOMAIN temp_meta :
                                      PrefixedKey(store_kind, key) = k]
                    ELSE new_meta0[k]],
              caller_meta |-> CallerMetaAfter(meta, temp_meta)]

(***************************************************************************)
(* WarehouseStore: save.                                                   *)
(***************************************************************************)
\* str(time.time_ns()) + "_" + self._get_random_string(5)
Uuids == { <<"1","7","_","a","B","3","x","Z">>, <<"1","8","_","Q","w","9","e","R">> }

\* _get_valid_user_path; error is "" when it returns
get_valid_user_path(user_path, uuid) ==
    IF Len(user_path) = 0 THEN [error |-> "ValueError", path |-> Empty]
    ELSE IF user_path[1] = "."
    THEN IF Len(user_path) = 1 THEN [error |-> "ValueError", path |-> Empty]
         ELSE [error |-> "", path |-> uuid \o user_path]
    ELSE [error |-> "", path |-> user_path]

\* a value is a str or a list of dicts; a dict of a list is kept as its items
\* in insertion order
DigitChars == <<"0","1","2","3","4","5","6","7","8","9">>
CellText(v) == <<DigitChars[v + 1]>>

RECURSIVE JoinComma(_)
JoinComma(cells) ==
    IF Len(cells) = 0 THEN Empty
    ELSE IF Len(cells) = 1 THEN cells[1]
    ELSE cells[1] \o <<",">> \o JoinComma(Tail(cells))

RECURSIVE WriteRows(_)
WriteRows(rows) ==
    IF Len(rows) = 0 THEN Empty
    ELSE JoinComma(rows[1]) \o <<"\r", "\n">> \o WriteRows(Tail(rows))

\* _json_to_csv of a list: the keys of the first dict, then the values of each
json_to_csv(json_data) ==
    IF Len(json_data) > 0
    THEN WriteRows(
           << [i \in 1..Len(json_data[1]) |-> json_data[1][i][1]] >>
           \o [r \in 1..Len(json_data) |->
                 [i \in 1..Len(json_data[r]) |-> CellText(json_data[r][i][2])]])
    ELSE Empty

V_text == [type |-> "str", data |-> <<"v">>]
V_list == [type |-> "list",
           data |-> << << <<<<"a">>, 1>>, <<<<"b">>, 2>> >>,
                       << <<<<"a">>, 3>>, <<<<"b">>, 4>> >> >>]
SaveValues == {V_text, V_list}

SaveUserPaths ==
    { <<"a",".","j","s","o","n">>,
      <<"b",".","p","a","r","q","u","e","t">>,
      <<".","c","s","v">>,
      Empty,
      <<".">> }

M_k == <<"k">>
SaveMetas == { EmptyDict, DictSet(EmptyDict, M_k, <<"1">>) }

SaveArgs ==
    [user_path : SaveUserPaths, value : SaveValues, meta : SaveMetas,
     use_ymd : BOOLEAN, table_name : TableNames, table_kind : TableKinds,
     ymd : Ymds]

\* the save calls of the model: a list value goes with the .csv path, an
\* explicit ymd with the default use_ymd, and a table kind other than the
\* default with the defaults of the other optional arguments
SaveCalls ==
    {a \in SaveArgs :
        /\ (a.value = V_list) = (a.user_path = <<".","c","s","v">>)
        /\ a.ymd # Empty => a.use_ymd
        /\ a.table_kind # S_general =>
              a.meta = EmptyDict /\ a.table_name = Empty /\ a.ymd = Empty /\ a.use_ymd}

\* mutant: the value is written first whatever the store kind
WriteOrder_ValueFirst(store_kind) == <<"value", "meta">>

\* mutant: the meta record is written first whatever the store kind
WriteOrder_MetaFirst(store_kind) == <<"meta", "value">>

\* lines 711-722: which of (meta, value) is written first and which second
WriteOrder(store_kind) ==
    IF store_kind = S_raw THEN <<"meta", "value">> ELSE <<"value", "meta">>

\* lines 679-708: the locals of _save_worker before its first write
SaveLocals(store_kind, a, now, uuid) ==
    LET ymd == IF a.ymd # Empty THEN a.ymd
               ELSE IF a.use_ymd THEN now.ymd ELSE Empty
        valid == get_valid_user_path(a.user_path, uuid)
        user_path == valid.path
        ext == SplitextExt(user_path)
        value == IF ext = S_csv /\ a.value.type = "list"
                 THEN [type |-> "str", data |-> json_to_csv(a.value.data)]
                 ELSE a.value
        warehouse_full_path ==
            get_warehouse_full_path(store_kind, a.table_name, user_path,
                                    a.table_kind, ymd, FALSE)
        meta_warehouse_full_path ==
            get_warehouse_full_path(store_kind, a.table_name, user_path,
                                    a.table_kind, ymd, TRUE)
        up == upgrade_meta(store_kind, a.meta, warehouse_full_path, a.table_name, now)
    IN  [error |-> IF valid.error # "" THEN valid.error ELSE up.error,
         store_kind |-> store_kind,
         user_path |-> user_path,
         value |-> value,
         warehouse_full_path |-> warehouse_full_path,
         meta_warehouse_full_path |-> meta_warehouse_full_path,
         meta |-> up.new_meta,
         caller_meta |-> IF valid.error # "" THEN a.meta ELSE up.caller_meta,
         option |-> IF ext # S_parquet THEN "gz" ELSE "none"]

\* the path and the body of the write named w
WritePath(c, w) == IF w = "meta" THEN c.meta_warehouse_full_path ELSE c.warehouse_full_path
WriteBody(c, w) == IF w = "meta" THEN c.meta ELSE c.value

\* _save_worker up to and including its first write.  The call raises before
\* any write on an invalid user path; the first write may raise.
save_worker(store_kind) ==
    /\ spc = "idle"
    /\ Len(saves) < MaxSaves
    /\ \E a \in SaveCalls, now \in Clock, uuid \in Uuids, ok \in BOOLEAN :
         LET c == SaveLocals(store_kind, a, now, uuid)
             w == WriteOrder(store_kind)[1]
             n == Len(saves) + 1
         IN  IF c.error # ""
             THEN /\ ok
                  /\ a.user_path \in {Empty, <<".">>} => uuid = CHOOSE u \in Uuids : TRUE
                  /\ saves' = Append(saves, [store_kind |-> store_kind, args |-> a,
                                             locals |-> c, outcome |-> "raised"])
                  /\ UNCHANGED <<s3, puts, spc, ctx>>
             ELSE /\ a.user_path[1] # "." => uuid = CHOOSE u \in Uuids : TRUE
                  /\ puts' = Append(puts, [save |-> n, arg |-> w,
                                           Key |-> WarehousePrefix \o WritePath(c, w),
                                           ok |-> ok])
                  /\ IF ok
                     THEN /\ s3' = EsSave(s3, WritePath(c, w), WriteBody(c, w))
                          /\ spc' = "second"
                          /\ ctx' = c
                          /\ saves' = Append(saves, [store_kind |-> store_kind,
                                        args |-> a, locals |-> c, outcome |-> "running"])
                     ELSE /\ saves' = Append(saves, [store_kind |-> store_kind,
                                        args |-> a, locals |-> c, outcome |-> "raised"])
                          /\ UNCHANGED <<s3, spc, ctx>>
    /\ UNCHANGED <<gets, ret>>
    /\ UNCHANGED otherThanStore

raw_save == save_worker(S_raw)

discovery_save == save_worker(S_discovery)

\* the second write of the save in progress, which may raise; the save returns
SecondWrite ==
    /\ spc = "second"
    /\ \E ok \in BOOLEAN :
         LET w == WriteOrder(ctx.store_kind)[2]
             n == Len(saves)
         IN  /\ puts' = Append(puts, [save |-> n, arg |-> w,
                                      Key |-> WarehousePrefix \o WritePath(ctx, w),
                                      ok |-> ok])
             /\ s3' = IF ok THEN EsSave(s3, WritePath(ctx, w), WriteBody(ctx, w)) ELSE s3
             /\ saves' = [saves EXCEPT ![n].outcome = IF ok THEN "returned" ELSE "raised"]
    /\ spc' = "idle"
    /\ ctx' = IdleCtx
    /\ UNCHANGED <<gets, ret>>
    /\ UNCHANGED otherThanStore



(***************************************************************************)
(* WarehouseStore: load by full path, and list.                            *)
(***************************************************************************)
\* EasyS3._load_file(full_path): the object of that key, or NotFound
EsLoadFile(bucket, full_path) ==
    IF full_path \in Keys(bucket)
    THEN [error |-> "", value |-> ObjectAt(bucket, full_path).Body]
    ELSE [error |-> "NotFound", value |-> Empty]

\* EasyS3.list_objects(path, service_name): the entries of the objects whose
\* key starts with default/{service_name}/{path}, in listing order
EsListObjects(bucket, path) ==
    LET listed == SelectSeq(bucket, LAMBDA o : StartsWith(o.Key, WarehousePrefix \o path))
    IN  [i \in 1..Len(listed) |-> [Key |-> listed[i].Key]]

\* EasyS3.listdir(path): the names of the directories right under the path
RECURSIVE Distinct(_)
Distinct(seq) ==
    IF Len(seq) = 0 THEN <<>>
    ELSE LET rest == Distinct(SubSeq(seq, 1, Len(seq) - 1))
             x == seq[Len(seq)]
         IN  IF \E i \in 1..Len(rest) : rest[i] = x THEN rest ELSE Append(rest, x)

EsListdir(bucket, path) ==
    LET dir == WarehousePrefix \o path \o Slash
        under == SelectSeq(bucket, LAMBDA o :
                    StartsWith(o.Key, dir)
                    /\ Find(SubSeq(o.Key, Len(dir) + 1, Len(o.Key)), Slash) > 0)
    IN  Distinct([i \in 1..Len(under) |->
                    Split(SubSeq(under[i].Key, Len(dir) + 1, Len(under[i].Key)))[1]])

\* load_with_full_path: the key goes to _load_file as it is given
load_with_full_path_key(full_path) == [error |-> "", key |-> full_path]

\* _get_meta_path_with_full_path; IndexError when the key has no fifth segment
get_meta_path_with_full_path(full_path) ==
    LET splited == Split(full_path)
    IN  IF Len(splited) < 5 THEN [error |-> "IndexError", key |-> Empty]
        ELSE [error |-> "",
              key |-> Join([i \in 1..Len(splited) |->
                              IF i = 4 + 1 THEN S_meta ELSE splited[i]])]

\* the keys a caller passes as full paths: those of the bucket and two others
ForeignKey ==
    <<"o","t","h","e","r","/","x","/","r","a","w","/","g","/","v","a","l","u","e","/","t","/","k">>
ShortKey == <<"d","e","f","a","u","l","t","/","w","h","2">>
FullPathArgs == Keys(s3) \cup {ForeignKey, ShortKey}

load_with_full_path ==
    /\ ret = NotRun
    /\ \E full_path \in FullPathArgs :
         LET k == load_with_full_path_key(full_path)
             got == EsLoadFile(s3, k.key)
         IN  /\ gets' = Append(gets, k.key)
             /\ ret' = [op |-> "load_with_full_path", arg |-> full_path,
                        error |-> got.error, result |-> got.value]
    /\ UNCHANGED <<s3, puts, saves, spc, ctx>>
    /\ UNCHANGED otherThanStore

load_meta_with_full_path ==
    /\ ret = NotRun
    /\ \E full_path \in FullPathArgs :
         LET k == get_meta_path_with_full_path(full_path)
             got == EsLoadFile(s3, k.key)
         IN  IF k.error # ""
             THEN /\ ret' = [op |-> "load_meta_with_full_path", arg |-> full_path,
                             error |-> k.error, result |-> Empty]
                  /\ UNCHANGED gets
             ELSE /\ gets' = Append(gets, k.key)
                  /\ ret' = [op |-> "load_meta_with_full_path", arg |-> full_path,
                             error |-> got.error, result |-> got.value]
    /\ UNCHANGED <<s3, puts, saves, spc, ctx>>
    /\ UNCHANGED otherThanStore

\* lines 523-531: the entries whose key contains an include string, one copy
\* for each include string it contains
RECURSIVE IncludesFilter(_, _)
IncludesFilter(objects, includes) ==
    IF Len(objects) = 0 THEN <<>>
    ELSE LET obj == objects[1]
             hits == SelectSeq(includes, LAMBDA include_str : Find(obj.Key, include_str) # -1)
         IN  [i \in 1..Len(hits) |-> obj] \o IncludesFilter(Tail(objects), includes)

\* lines 532-533: the objects the not-is_direoctry branch works on: it lists
\* the prefix again, whatever the filtered objects are
ObjectsToReturn(bucket, full_path, filtered) == EsListObjects(bucket, full_path)

\* lines 536-547: the loads of the entries, up to the first that raises
RECURSIVE LoadEntries(_, _, _)
LoadEntries(bucket, objects, is_meta) ==
    IF Len(objects) = 0 THEN [error |-> "", gets |-> <<>>, result |-> <<>>]
    ELSE LET key == objects[1].Key
             k == IF is_meta THEN get_meta_path_with_full_path(key)
                  ELSE load_with_full_path_key(key)
             got == EsLoadFile(bucket, k.key)
             rest == LoadEntries(bucket, Tail(objects), is_meta)
         IN  IF k.error # "" THEN [error |-> k.error, gets |-> <<>>, result |-> <<>>]
             ELSE IF got.error # ""
             THEN [error |-> got.error, gets |-> <<k.key>>, result |-> <<>>]
             ELSE [error |-> rest.error,
                   gets |-> <<k.key>> \o rest.gets,
                   result |-> IF rest.error # "" THEN <<>>
                              ELSE <<[key |-> key, value |-> got.value]>> \o rest.result]

\* lines 512-521: the prefix _list_worker lists
ListPrefix(store_kind, a) ==
    LET table_name == get_table_name(a.table_name)
        user_dir_with_slash == IF a.user_dir # Empty THEN Slash \o a.user_dir ELSE Empty
        ymd_with_slash == IF a.ymd # Empty THEN Slash \o a.ymd ELSE Empty
    IN  store_kind \o Slash \o a.table_kind \o Slash \o S_value \o Slash
        \o table_name \o user_dir_with_slash \o ymd_with_slash

\* _list_worker: what it returns or raises, and the gets it issues
list_worker_result(bucket, store_kind, a) ==
    LET full_path == ListPrefix(store_kind, a)
        listed == EsListObjects(bucket, full_path)
        filtered == IF Len(a.includes) > 0 THEN IncludesFilter(listed, a.includes)
                    ELSE listed
        objects == ObjectsToReturn(bucket, full_path, filtered)
    IN  IF ~a.is_direoctry
        THEN IF a.load THEN LoadEntries(bucket, objects, a.is_meta)
             ELSE [error |-> "", gets |-> <<>>, result |-> objects]
        ELSE [error |-> "", gets |-> <<>>, result |-> EsListdir(bucket, full_path)]

I_a == <<"a","/">>
I_1 == <<"1">>
I_zz == <<"z","z">>
ListIncludes == { <<>>, <<I_a>>, <<I_a, I_1>>, <<I_zz>> }
ListArgs ==
    [table_name : {Empty}, user_dir : {Empty, <<"a">>}, ymd : {Empty},
     table_kind : {S_general}, load : BOOLEAN, is_meta : BOOLEAN,
     includes : ListIncludes, is_direoctry : BOOLEAN]

list_worker(store_kind) ==
    /\ ret = NotRun
    /\ \E a \in ListArgs :
         LET r == list_worker_result(s3, store_kind, a)
         IN  /\ gets' = gets \o r.gets
             /\ ret' = [op |-> "list", store_kind |-> store_kind, arg |-> a,
                        error |-> r.error, result |-> r.result]
    /\ UNCHANGED <<s3, puts, saves, spc, ctx>>
    /\ UNCHANGED otherThanStore

raw_list == list_worker(S_raw)

discovery_list == list_worker(S_discovery)

(***************************************************************************)
(* The buckets the reads start from: an object outside the warehouse, and  *)
(* the objects of a sequence of saves that returned.                       *)
(***************************************************************************)
\* bound of the model: the number of saves that filled the bucket
MaxSeedSaves == 3

NoYmd(store_kind, table_kind, user_path) ==
    [store_kind |-> store_kind,
     args |-> [user_path |-> user_path, value |-> V_text, meta |-> EmptyDict,
               use_ymd |-> FALSE, table_name |-> Empty, table_kind |-> table_kind,
               ymd |-> Empty]]

SeedCalls ==
    { NoYmd(S_raw, S_general, <<"a","/","1">>),
      NoYmd(S_raw, S_general, <<"a","/","2">>),
      NoYmd(S_raw, S_general, <<"b","/","1">>),
      NoYmd(S_discovery, <<"a","/","b">>, <<"a",".","j","s","o","n">>) }

RECURSIVE SeqsUpTo(_, _)
SeqsUpTo(S, n) ==
    IF n = 0 THEN {<<>>}
    ELSE LET shorter == SeqsUpTo(S, n - 1)
         IN  shorter \cup {Append(q, x) : q \in shorter, x \in S}

\* the bucket, the save calls received and the save records after the calls
RECURSIVE AfterSaves(_)
AfterSaves(calls) ==
    IF Len(calls) = 0
    THEN [s3 |-> <<[Key |-> ForeignKey, Body |-> V_text]>>, puts |-> <<>>, saves |-> <<>>]
    ELSE LET before == AfterSaves(SubSeq(calls, 1, Len(calls) - 1))
             call == calls[Len(calls)]
             now == CHOOSE t \in Clock : TRUE
             uuid == CHOOSE u \in Uuids : TRUE
             c == SaveLocals(call.store_kind, call.args, now, uuid)
             w == WriteOrder(call.store_kind)
             n == Len(calls)
             b1 == EsSave(before.s3, WritePath(c, w[1]), WriteBody(c, w[1]))
             b2 == EsSave(b1, WritePath(c, w[2]), WriteBody(c, w[2]))
         IN  [s3 |-> b2,
              puts |-> before.puts
                       \o << [save |-> n, arg |-> w[1], ok |-> TRUE,
                              Key |-> WarehousePrefix \o WritePath(c, w[1])],
                             [save |-> n, arg |-> w[2], ok |-> TRUE,
                              Key |-> WarehousePrefix \o WritePath(c, w[2])] >>,
              saves |-> Append(before.saves,
                          [store_kind |-> call.store_kind, args |-> call.args,
                           locals |-> c, outcome |-> "returned"])]

(***************************************************************************)
(* The specifications.  Each one drives one component from its initial     *)
(* state and leaves the variables of the others at rest.                   *)
(***************************************************************************)
InitPathCodec ==
    /\ self_table_name \in ConfiguredTableNames
    /\ pin \in PathArgs
    /\ pout = NotRun
    /\ query = Empty /\ format_type = "auto" /\ request_limit = 0
    /\ qpc = "rest" /\ status = "" /\ n_start = 0 /\ n_polls = 0
    /\ requests = <<>> /\ pages = <<>> /\ next_tokens = <<>>
    /\ header = <<>> /\ result = <<>> /\ index = 0
    /\ s3 = <<>> /\ puts = <<>> /\ gets = <<>> /\ saves = <<>>
    /\ spc = "rest" /\ ctx = IdleCtx /\ ret = NotRun

NextPathCodec == ParseBuiltKey

SpecPathCodec == InitPathCodec /\ [][NextPathCodec]_vars

InitQueryRunner ==
    /\ self_table_name = Empty
    /\ pin = NotRun /\ pout = NotRun
    /\ \E c \in QueryCalls : query = c[1] /\ format_type = c[2]
    /\ request_limit \in 0..MaxRequestLimit
    /\ qpc = "start" /\ status = "" /\ n_start = 0 /\ n_polls = 0
    /\ requests = <<>> /\ pages = <<>> /\ next_tokens = <<>>
    /\ header = <<>> /\ result = <<>> /\ index = 0
    /\ s3 = <<>> /\ puts = <<>> /\ gets = <<>> /\ saves = <<>>
    /\ spc = "rest" /\ ctx = IdleCtx /\ ret = NotRun

NextQueryRunner == StartQuery \/ StartQueryFails \/ Poll \/ GetResults

SpecQueryRunner == InitQueryRunner /\ [][NextQueryRunner]_vars

\* every get_query_results request is answered (with a page or an error), so
\* an iteration of the for loop that can run does run
SpecQueryRunnerFair ==
    InitQueryRunner /\ [][NextQueryRunner]_vars /\ WF_vars(GetResults)

InitSave ==
    /\ self_table_name = <<"t","b">>
    /\ pin = NotRun /\ pout = NotRun
    /\ query = Empty /\ format_type = "auto" /\ request_limit = 0
    /\ qpc = "rest" /\ status = "" /\ n_start = 0 /\ n_polls = 0
    /\ requests = <<>> /\ pages = <<>> /\ next_tokens = <<>>
    /\ header = <<>> /\ result = <<>> /\ index = 0
    /\ s3 = <<>> /\ puts = <<>> /\ gets = <<>> /\ saves = <<>>
    /\ spc = "idle" /\ ctx = IdleCtx /\ ret = NotRun

NextSave == raw_save \/ discovery_save \/ SecondWrite

SpecSave == InitSave /\ [][NextSave]_vars


InitRead ==
    /\ self_table_name = <<"t","b">>
    /\ pin = NotRun /\ pout = NotRun
    /\ query = Empty /\ format_type = "auto" /\ request_limit = 0
    /\ qpc = "rest" /\ status = "" /\ n_start = 0 /\ n_polls = 0
    /\ requests = <<>> /\ pages = <<>> /\ next_tokens = <<>>
    /\ header = <<>> /\ result = <<>> /\ index = 0
    /\ \E calls \in SeqsUpTo(SeedCalls, MaxSeedSaves) :
         /\ s3 = AfterSaves(calls).s3
         /\ puts = AfterSaves(calls).puts
         /\ saves = AfterSaves(calls).saves
    /\ gets = <<>>
    /\ spc = "idle" /\ ctx = IdleCtx /\ ret = NotRun

NextRead == load_with_full_path \/ load_meta_with_full_path \/ raw_list \/ discovery_list

SpecRead == InitRead /\ [][NextRead]_vars

(***************************************************************************)
(* Properties of the QueryRunner, under SpecQueryRunner.                   *)
(***************************************************************************)
\* all the rows of a sequence of pages, in fetch order
RECURSIVE AllRows(_)
AllRows(ps) == IF Len(ps) = 0 THEN <<>> ELSE ps[1].Rows \o AllRows(Tail(ps))

\* C2: when the service reports FAILED or CANCELLED the call ends in an error:
\* get_query_results is never requested and no result list is returned.
C2_FailedOrCancelledRaises ==
    status \in {"FAILED", "CANCELLED"} =>
        /\ qpc = "raised"
        /\ requests = <<>>
        /\ pages = <<>>
        /\ result = <<>>

C2_Witness == status = "FAILED" /\ qpc = "raised" /\ n_polls = 2

\* the pages returned so far carry the tokens t1, t2, t1
TokensT1T2T1 ==
    /\ format_type = "select"
    /\ Len(pages) >= 3
    /\ pages[1].NextToken = "t1"
    /\ pages[2].NextToken = "t2"
    /\ pages[3].NextToken = "t1"

\* C3 as stated: with the page tokens t1, t2, t1 the call returns the rows of
\* exactly the first two pages.
C3_RowsOfFirstTwoPages ==
    (TokensT1T2T1 /\ qpc = "returned") =>
        result = parse(pages[1].Rows[1], Tail(pages[1].Rows) \o pages[2].Rows)

\* C3 amended: with the page tokens t1, t2, t1 the pagination stops at the third
\* page (three requests, with no token, t1 and t2), and the call returns the
\* rows of exactly the first three pages, the page that carried the repeated
\* token included, less the header.
C3_StopsAfterThirdPage ==
    TokensT1T2T1 =>
        /\ Len(pages) = 3
        /\ requests = <<NoToken, "t1", "t2">>
        /\ qpc \in {"returned", "raised"}
        /\ qpc = "returned" =>
             result = parse(pages[1].Rows[1],
                            Tail(pages[1].Rows) \o pages[2].Rows \o pages[3].Rows)

C3_Witness ==
    /\ TokensT1T2T1
    /\ qpc = "returned"
    /\ request_limit = 4
    /\ Len(pages[3].Rows) = 2
    /\ Len(result) = 5

\* the tokens are pairwise distinct and only the last page omits the token
DistinctTokensThenNone ==
    /\ Len(pages) > 0
    /\ pages[Len(pages)].NextToken = NoToken
    /\ \A i \in 1..(Len(pages) - 1) : pages[i].NextToken # NoToken
    /\ \A i, j \in 1..Len(pages) : i # j => pages[i].NextToken # pages[j].NextToken

\* C9: in select mode, with pairwise distinct tokens and no token on the last
\* page, the result is every row of every page but the first row of the first
\* page, once each and in fetch order, each zipped against that first row; each
\* page after the first was requested with the token of the page before it.
C9_CompleteOnceInOrder ==
    (format_type = "select" /\ qpc = "returned" /\ DistinctTokensThenNone) =>
        /\ Len(result) = Len(AllRows(pages)) - 1
        /\ \A i \in 1..Len(result) :
              result[i] = Zip(AllRows(pages)[1], AllRows(pages)[i + 1])
        /\ requests = [i \in 1..Len(pages) |->
                          IF i = 1 THEN NoToken ELSE pages[i - 1].NextToken]

C9_Witness ==
    /\ format_type = "select" /\ qpc = "returned" /\ DistinctTokensThenNone
    /\ Len(pages) = 3
    /\ Len(pages[2].Rows) = 2
    /\ Len(pages[3].Rows) = 2
    /\ Len(result) = 5

\* C10: start_query_execution is called once; a poll that returned RUNNING or
\* QUEUED leaves the call in the poll loop; a terminal status takes it out of
\* the loop; get_query_results is requested only after a poll returned SUCCEEDED.
C10_PollStateMachine ==
    /\ qpc = "start" => n_start = 0 /\ n_polls = 0 /\ requests = <<>>
    /\ qpc # "start" => n_start = 1
    /\ (n_polls > 0 /\ status \in NonTerminal) => qpc = "poll"
    /\ (n_polls > 0 /\ status \notin NonTerminal) => qpc # "poll"
    /\ qpc \in {"fetch", "returned"} => status = "SUCCEEDED"
    /\ Len(requests) > 0 => status = "SUCCEEDED"

C10_Witness ==
    n_start = 1 /\ n_polls = 2 /\ status = "SUCCEEDED" /\ Len(requests) = 2

\* the number of get_query_results requests stays within request_limit and the
\* loop index counts them
FetchWithinLimit ==
    /\ Len(requests) <= request_limit
    /\ Len(pages) = Len(requests)
    /\ qpc = "fetch" => (index = Len(requests) /\ index < request_limit)

\* once in the fetch loop, the call leaves it
FetchTerminates == (qpc = "fetch") ~> (qpc \in {"returned", "raised"})

\* C11 as stated: the number of get_query_results requests never exceeds
\* request_limit, and a raw-mode call that returns made exactly one request and
\* returns the one-element list holding the first page.
C11_RawExactlyOneRequest ==
    /\ FetchWithinLimit
    /\ (format_type = "raw" /\ qpc = "returned") =>
          (Len(requests) = 1 /\ result = <<pages[1]>>)

\* C11 amended: after SUCCEEDED the fetch loop terminates whatever pages the
\* service returns; the number of get_query_results requests never exceeds
\* request_limit, fresh token on every page or not; a raw-mode call with
\* request_limit >= 1 makes exactly one request and returns the one-element
\* list holding that page verbatim, and a raw-mode call with request_limit = 0
\* makes no request and returns the empty list.
C11_FetchBoundedAndTerminates ==
    /\ [](FetchWithinLimit)
    /\ []((format_type = "raw" /\ qpc = "returned") =>
            IF request_limit >= 1
            THEN Len(requests) = 1 /\ result = <<pages[1]>>
            ELSE requests = <<>> /\ result = <<>>)
    /\ FetchTerminates

\* the ceiling, not the service, ended the loop: three pages, each with a
\* fresh token, under request_limit = 3
C11_Witness ==
    /\ format_type = "select" /\ qpc = "returned"
    /\ request_limit = 3
    /\ Len(requests) = 3
    /\ Len(next_tokens) = 3
    /\ pages[3].NextToken \notin {pages[1].NextToken, pages[2].NextToken}

(***************************************************************************)
(* Properties of save, under SpecSave.                                     *)
(***************************************************************************)
\* the save calls the collaborator received from the n-th _save_worker call
PutsOf(n) == SelectSeq(puts, LAMBDA e : e.save = n)

\* C1: raw_save issues the meta write and then the value write, discovery_save
\* the value write and then the meta write; the second write is issued only
\* after the first returned, and a save that returned issued both.
C1_WriteOrder ==
    \A n \in 1..Len(saves) :
        LET e == PutsOf(n)
            first == IF saves[n].store_kind = S_raw THEN "meta" ELSE "value"
            second == IF saves[n].store_kind = S_raw THEN "value" ELSE "meta"
        IN  /\ Len(e) <= 2
            /\ Len(e) >= 1 =>
                 /\ e[1].arg = first
                 /\ e[1].Key = WarehousePrefix \o WritePath(saves[n].locals, first)
            /\ Len(e) = 2 =>
                 /\ e[1].ok
                 /\ e[2].arg = second
                 /\ e[2].Key = WarehousePrefix \o WritePath(saves[n].locals, second)
            /\ saves[n].outcome = "returned" => Len(e) = 2 /\ e[2].ok

C1_Witness ==
    /\ Len(saves) = 1 /\ saves[1].store_kind = S_raw /\ saves[1].outcome = "returned"
    /\ Len(puts) = 2 /\ puts[1].arg = "meta" /\ puts[2].arg = "value"

\* the value key and the meta key of the n-th save, as stored
ValueKeyOf(n) == WarehousePrefix \o saves[n].locals.warehouse_full_path
MetaKeyOf(n) == WarehousePrefix \o saves[n].locals.meta_warehouse_full_path

\* the saves that got as far as computing their pair of keys
KeyedSaves == {n \in 1..Len(saves) : saves[n].locals.error = ""}

\* C12: in a store written only by raw_save and discovery_save, where either
\* write of a save may fail and nothing is rolled back: every object belongs to
\* the pair of some save; for a raw save, if its value object exists then its
\* meta object exists; for a discovery save, if its meta object exists then its
\* value object exists; after a save that returned both objects exist.
C12_SidecarInvariant ==
    /\ \A k \in Keys(s3) :
          \E n \in KeyedSaves : k \in {ValueKeyOf(n), MetaKeyOf(n)}
    /\ \A n \in KeyedSaves :
          /\ saves[n].store_kind = S_raw =>
                (ValueKeyOf(n) \in Keys(s3) => MetaKeyOf(n) \in Keys(s3))
          /\ saves[n].store_kind = S_discovery =>
                (MetaKeyOf(n) \in Keys(s3) => ValueKeyOf(n) \in Keys(s3))
          /\ saves[n].outcome = "returned" =>
                (ValueKeyOf(n) \in Keys(s3) /\ MetaKeyOf(n) \in Keys(s3))

\* a raw save whose second write failed: the meta object is left without value
C12_Witness ==
    /\ Len(saves) = 1 /\ saves[1].store_kind = S_raw /\ saves[1].outcome = "raised"
    /\ Len(puts) = 2 /\ puts[1].ok /\ ~puts[2].ok
    /\ MetaKeyOf(1) \in Keys(s3)
    /\ ValueKeyOf(1) \notin Keys(s3)

\* the keys _upgrade_meta injects into temp_meta
InjectedKeys == {S_full_path, S_stored_time, S_ymd}

\* the saves that reached _upgrade_meta
Upgraded == {n \in 1..Len(saves) : saves[n].locals.error = ""}

\* C7 as stated: every key of the record carries the prefix "S_"; the record has
\* S_full_path, S_stored_time, S_ymd, S_default_table_name and S_k for every
\* caller key k; the caller's mapping is unchanged.
C7_EveryKeyPrefixed ==
    \A n \in Upgraded :
        LET S == saves[n].store_kind
            rec == saves[n].locals.meta
        IN  /\ \A k \in DOMAIN rec : StartsWith(k, S \o Underscore)
            /\ \A k \in InjectedKeys \cup {S_default_table_name}
                        \cup DOMAIN saves[n].args.meta :
                  (S \o Underscore \o k) \in DOMAIN rec
            /\ saves[n].locals.caller_meta = saves[n].args.meta

\* C7 amended: the record has S_full_path, S_stored_time, S_ymd and S_k for
\* every caller key k, and default_table_name without a prefix, holding the
\* effective table name; default_table_name is its only key that lacks the
\* prefix "S_"; the caller's mapping is unchanged.
C7_AllButDefaultTableNamePrefixed ==
    \A n \in Upgraded :
        LET S == saves[n].store_kind
            rec == saves[n].locals.meta
        IN  /\ DOMAIN rec =
                 {S_default_table_name}
                 \cup {S \o Underscore \o k : k \in InjectedKeys \cup DOMAIN saves[n].args.meta}
            /\ \A k \in DOMAIN rec :
                  ~StartsWith(k, S \o Underscore) <=> k = S_default_table_name
            /\ rec[S_default_table_name] = get_table_name(saves[n].args.table_name)
            /\ \A k \in DOMAIN saves[n].args.meta :
                  rec[S \o Underscore \o k] = saves[n].args.meta[k]
            /\ saves[n].locals.caller_meta = saves[n].args.meta

C7_Witness ==
    \E n \in Upgraded :
        /\ saves[n].store_kind = S_discovery
        /\ saves[n].args.meta # EmptyDict
        /\ saves[n].outcome = "returned"


(***************************************************************************)
(* Properties of load and list, under SpecRead.                            *)
(***************************************************************************)
\* the keys of the entries a list call returned, in order
ReturnedKeys ==
    [i \in 1..Len(ret.result) |->
        IF ret.arg.load THEN ret.result[i].key ELSE ret.result[i].Key]

\* the keys of the backend listing that contain one of the include strings
MatchingKeys ==
    LET listed == EsListObjects(s3, ListPrefix(ret.store_kind, ret.arg))
        keys == [i \in 1..Len(listed) |-> listed[i].Key]
    IN  SelectSeq(keys, LAMBDA key :
            \E i \in 1..Len(ret.arg.includes) : Find(key, ret.arg.includes[i]) # -1)

\* C4: a list call with is_direoctry=False and a non-empty includes returns
\* exactly the listing entries whose key contains one of the include strings,
\* each once.
C4_ListingFilter ==
    (ret # NotRun /\ ret.op = "list" /\ ret.error = ""
     /\ ~ret.arg.is_direoctry /\ Len(ret.arg.includes) > 0) =>
        ReturnedKeys = MatchingKeys

\* the two keys have the same segments but for one, "value" in k and "meta" in m
DiffersOnlyInChannel(k, m) ==
    LET ks == Split(k)
        ms == Split(m)
    IN  /\ Len(ks) = Len(ms)
        /\ \E i \in 1..Len(ks) :
              /\ ks[i] = S_value /\ ms[i] = S_meta
              /\ \A j \in 1..Len(ks) : j # i => ks[j] = ms[j]

\* C6: for every save that returned, the meta key written differs from the value
\* key written only in the channel segment, the record written has full_path
\* equal to the value key, and load_meta_with_full_path of the value key gets
\* the meta key written.
C6_ValueMetaPairing ==
    \A n \in 1..Len(saves) :
        saves[n].outcome = "returned" =>
            LET e == PutsOf(n)
                K == (IF e[1].arg = "value" THEN e[1] ELSE e[2]).Key
                M == (IF e[1].arg = "meta" THEN e[1] ELSE e[2]).Key
            IN  /\ DiffersOnlyInChannel(K, M)
                /\ saves[n].locals.meta[saves[n].store_kind \o Underscore \o S_full_path] = K
                /\ (ret # NotRun /\ ret.op = "load_meta_with_full_path" /\ ret.arg = K)
                      => gets = <<M>>

\* C8: load_with_full_path and load_meta_with_full_path of a key that does not
\* start with default/{warehouse_name}/ fail with the invalid-path error and
\* issue no get.
C8_InvalidPathRejected ==
    (ret # NotRun /\ ret.op \in {"load_with_full_path", "load_meta_with_full_path"}
     /\ ~StartsWith(ret.arg, WarehousePrefix)) =>
        /\ ret.error = "ValueError"
        /\ gets = <<>>

=============================================================================
